---- MODULE Spec2Model ----
(***************************************************************************)
(* A model of InjectWebSocketService (src/src/inject/websocketService.ts): *)
(* the connection manager (connect / scheduleReconnect and the four        *)
(* WebSocket callbacks) and the subtitle request pipeline                   *)
(* (handleMessage / handleSubtitleRequest / sendResponse).                  *)
(*                                                                         *)
(* Host semantics assumed (WHATWG WebSockets and HTML event loop):          *)
(*  - every callback runs to completion before the next one starts;         *)
(*  - when a connection fails, the host sets readyState to CLOSED and       *)
(*    dispatches `error` and then `close` from one task, so no timer,       *)
(*    message or fetch completion runs between the two;                     *)
(*  - a clean closure dispatches `close` alone;                             *)
(*  - setTimeout returns a non-zero handle.                                 *)
(***************************************************************************)
EXTENDS Integers, Sequences, FiniteSets, TLC

VARIABLES
    sock,            \* host: the state of every WebSocket instance (by slot)
    ws,              \* this.ws: the slot of the current instance, or Null
    isConnecting,    \* this.isConnecting
    reconnectTimer,  \* this.reconnectTimer: a timer handle, or Null
    timers,          \* host: the timer handles that are scheduled and not yet fired
    attempts,        \* history: the parity of the connect attempts that got past the guard
    pc,              \* per request: the await its handleSubtitleRequest is suspended at
    request,         \* per request: the `request` parameter of handleSubtitleRequest
    videoInfo,       \* per request: the local `videoInfo`
    origin,          \* history: the instance whose onmessage delivered the request
                     \* (Null once that instance has been replaced by a new one)
    replies,         \* history: what the network answered to the request's fetches
    fetchLog,        \* history: the fetches the request issued, in order
    handed,          \* per request: the responses passed to sendResponse, each with
                     \* whether and over which instance ws.send transmitted it
    ignored          \* history: a text that is no GET_SUBTITLE request was delivered

connVars == <<sock, ws, isConnecting, reconnectTimer, timers, attempts>>
pipeVars == <<pc, request, videoInfo, origin, replies, fetchLog, handed, ignored>>
vars == <<sock, ws, isConnecting, reconnectTimer, timers, attempts,
          pc, request, videoInfo, origin, replies, fetchLog, handed, ignored>>

----------------------------------------------------------------------------
(* Bounds of the model *)

NumSessions == 2     \* WebSocket instances the host holds at once; a dead one is recycled
NumTimers == 2       \* timer handles the host can have scheduled at once
MaxRequests == 2     \* GET_SUBTITLE requests accepted in one run

Sessions == 1..NumSessions
Timers == 1..NumTimers
Requests == 1..MaxRequests
Null == 0

----------------------------------------------------------------------------
(* The host's WebSocket instances *)

\* "none": the slot holds no instance.  "errored": the connection has failed,
\* readyState is CLOSED, `error` has been dispatched and `close` is next in
\* the same task.  "closed": `close` has been dispatched; the instance is dead.
SockStates == {"none", "connecting", "open", "closing", "errored", "closed"}

ReadyState(st) ==
    CASE st = "connecting" -> "CONNECTING"
      [] st = "open"       -> "OPEN"
      [] st = "closing"    -> "CLOSING"
      [] OTHER             -> "CLOSED"

Live(st) == st \in {"connecting", "open", "closing", "errored"}

\* A host task is between two of its callbacks.
InTask == \E s \in Sessions : sock[s] = "errored"

FreeSlots == {s \in Sessions : ~Live(sock[s])}
NewSession == CHOOSE s \in FreeSlots : \A o \in FreeSlots : s <= o

FreeTimers(tm) == Timers \ tm
NewTimer(tm) == CHOOSE t \in FreeTimers(tm) : \A o \in FreeTimers(tm) : t <= o

----------------------------------------------------------------------------
(* Connection manager *)

\* scheduleReconnect(), called with this.reconnectTimer = rt and the host's
\* scheduled timers = tm.
scheduleReconnectUnguarded(rt, tm) ==
    /\ FreeTimers(tm) # {}
    /\ reconnectTimer' = NewTimer(tm)
    /\ timers' = tm \cup {NewTimer(tm)}

scheduleReconnect(rt, tm) ==
    IF rt # Null
    THEN /\ reconnectTimer' = rt
         /\ timers' = tm
    ELSE /\ FreeTimers(tm) # {}
         /\ reconnectTimer' = NewTimer(tm)
         /\ timers' = tm \cup {NewTimer(tm)}

\* The guard of connect(): an attempt is in flight, or the current instance is open.
\* (ConnectGuardOpenOnly: the guard without its isConnecting test.)
ConnectGuardOpenOnly == ws # Null /\ ReadyState(sock[ws]) = "OPEN"

ConnectGuard == isConnecting \/ (ws # Null /\ ReadyState(sock[ws]) = "OPEN")

\* (connectNoRetryOnThrow: the catch block of lines 84-88 without scheduleReconnect.)
connectNoRetryOnThrow(rt, tm, throws) ==
    IF ConnectGuard
    THEN /\ reconnectTimer' = rt
         /\ timers' = tm
         /\ UNCHANGED <<sock, ws, isConnecting, attempts, origin>>
    ELSE IF throws
    THEN /\ isConnecting' = FALSE
         /\ reconnectTimer' = rt
         /\ timers' = tm
         /\ attempts' = ~attempts
         /\ UNCHANGED <<sock, ws, origin>>
    ELSE /\ FreeSlots # {}
         /\ isConnecting' = TRUE
         /\ sock' = [sock EXCEPT ![NewSession] = "connecting"]
         /\ ws' = NewSession
         /\ reconnectTimer' = rt
         /\ timers' = tm
         /\ attempts' = ~attempts
         /\ origin' = [i \in Requests |-> IF origin[i] = NewSession THEN Null ELSE origin[i]]

\* connect(), called with this.reconnectTimer = rt and scheduled timers = tm;
\* `throws` is whether the WebSocket constructor throws.
connect(rt, tm, throws) ==
    IF ConnectGuard
    THEN /\ reconnectTimer' = rt
         /\ timers' = tm
         /\ UNCHANGED <<sock, ws, isConnecting, attempts, origin>>
    ELSE IF throws
    THEN /\ isConnecting' = FALSE
         /\ scheduleReconnect(rt, tm)
         /\ attempts' = ~attempts
         /\ UNCHANGED <<sock, ws, origin>>
    ELSE /\ FreeSlots # {}
         /\ isConnecting' = TRUE
         /\ sock' = [sock EXCEPT ![NewSession] = "connecting"]
         /\ ws' = NewSession
         /\ reconnectTimer' = rt
         /\ timers' = tm
         /\ attempts' = ~attempts
         \* a request that came over the instance this slot held before came
         \* over an instance that no longer exists
         /\ origin' = [i \in Requests |-> IF origin[i] = NewSession THEN Null ELSE origin[i]]

\* (OnOpenStillConnecting: onopen without `this.isConnecting = false`.)
OnOpenStillConnecting(s) ==
    /\ ~InTask
    /\ sock[s] = "connecting"
    /\ sock' = [sock EXCEPT ![s] = "open"]
    /\ reconnectTimer' = Null
    /\ timers' = IF reconnectTimer # Null THEN timers \ {reconnectTimer} ELSE timers
    /\ UNCHANGED <<ws, isConnecting, attempts>>
    /\ UNCHANGED pipeVars

\* ws.onopen of instance s
OnOpen(s) ==
    /\ ~InTask
    /\ sock[s] = "connecting"
    /\ sock' = [sock EXCEPT ![s] = "open"]
    /\ isConnecting' = FALSE
    /\ reconnectTimer' = Null
    /\ timers' = IF reconnectTimer # Null THEN timers \ {reconnectTimer} ELSE timers
    /\ UNCHANGED <<ws, attempts>>
    /\ UNCHANGED pipeVars

\* The peer starts the closing handshake: readyState becomes CLOSING, no callback runs.
PeerClosing(s) ==
    /\ ~InTask
    /\ sock[s] = "open"
    /\ sock' = [sock EXCEPT ![s] = "closing"]
    /\ UNCHANGED <<ws, isConnecting, reconnectTimer, timers, attempts>>
    /\ UNCHANGED pipeVars

\* (OnErrorStillConnecting: onerror without `this.isConnecting = false`.)
OnErrorStillConnecting(s) ==
    /\ ~InTask
    /\ sock[s] \in {"connecting", "open", "closing"}
    /\ sock' = [sock EXCEPT ![s] = "errored"]
    /\ scheduleReconnect(reconnectTimer, timers)
    /\ UNCHANGED <<ws, isConnecting, attempts>>
    /\ UNCHANGED pipeVars

\* ws.onerror of instance s: the connection failed (readyState is already CLOSED).
OnError(s) ==
    /\ ~InTask
    /\ sock[s] \in {"connecting", "open", "closing"}
    /\ sock' = [sock EXCEPT ![s] = "errored"]
    /\ isConnecting' = FALSE
    /\ scheduleReconnect(reconnectTimer, timers)
    /\ UNCHANGED <<ws, attempts>>
    /\ UNCHANGED pipeVars

\* (OnCloseNoReschedule: onclose without its scheduleReconnect() call.)
OnCloseNoReschedule(s) ==
    /\ \/ sock[s] = "errored"
       \/ ~InTask /\ sock[s] \in {"open", "closing"}
    /\ sock' = [sock EXCEPT ![s] = "closed"]
    /\ isConnecting' = FALSE
    /\ UNCHANGED <<ws, reconnectTimer, timers, attempts>>
    /\ UNCHANGED pipeVars

\* ws.onclose of instance s: after its `error`, or alone on a clean closure.
OnClose(s) ==
    /\ \/ sock[s] = "errored"
       \/ ~InTask /\ sock[s] \in {"open", "closing"}
    /\ sock' = [sock EXCEPT ![s] = "closed"]
    /\ isConnecting' = FALSE
    /\ scheduleReconnect(reconnectTimer, timers)
    /\ UNCHANGED <<ws, attempts>>
    /\ UNCHANGED pipeVars

\* (TimerFireStaleHandle: the timer callback without `this.reconnectTimer = null`.)
TimerFireStaleHandle(t, throws) ==
    /\ ~InTask
    /\ t \in timers
    /\ connect(reconnectTimer, timers \ {t}, throws)
    /\ UNCHANGED <<pc, request, videoInfo, replies, fetchLog, handed, ignored>>

\* The callback of the timer scheduled by scheduleReconnect.
TimerFire(t, throws) ==
    /\ ~InTask
    /\ t \in timers
    /\ connect(Null, timers \ {t}, throws)
    /\ UNCHANGED <<pc, request, videoInfo, replies, fetchLog, handed, ignored>>

----------------------------------------------------------------------------
(* Values of the pipeline *)

\* Message texts of the source, transliterated to ASCII:
\*   MsgNoBvid           line 176  (cannot extract the BV id from the URL)
\*   MsgVideoInfoFailed  line 188  (fetching the video info failed: )
\*   MsgListFailed       line 201  (fetching the subtitle list failed: )
\*   MsgNoSubtitles      line 136  (this video has no usable subtitles)
\*   UnknownAuthor       line 151  (unknown author)
MsgNoBvid == "cannot extract BV id from URL, check the URL format"
MsgVideoInfoFailed == "get video info failed: "
MsgListFailed == "get subtitle list failed: "
MsgNoSubtitles == "this video has no usable subtitles"
UnknownAuthor == "unknown author"

\* A thrown value, and String(error) of it (lines 161, 166).
Err(name, message) == [name |-> name, message |-> message]
ErrorToString(e) == e.name \o ": " \o e.message

Ok(v) == [ok |-> TRUE, value |-> v]
Thrown(e) == [ok |-> FALSE, error |-> e]

\* The texts a peer sends.
RawGarbage == "GET_SUBTITLE r1"
RawNull == "null"
RawPing == "{\"type\":\"PING\",\"requestId\":\"r1\"}"
RawReq1 == "{\"type\":\"GET_SUBTITLE\",\"videoUrl\":\"https://www.bilibili.com/video/BV1xx411c7mD\",\"requestId\":\"r1\"}"
RawReq2 == "{\"type\":\"GET_SUBTITLE\",\"videoUrl\":\"https://www.bilibili.com/video/BV1GJ411x7h7?p=2\",\"requestId\":\"r2\"}"
RawReq3 == "{\"type\":\"GET_SUBTITLE\",\"videoUrl\":\"https://www.bilibili.com/bangumi/play/ep1\",\"requestId\":\"r1\"}"

RequestTexts == {RawReq1, RawReq2, RawReq3}
RawMessages == {RawGarbage, RawNull, RawPing} \cup RequestTexts

Message(type, videoUrl, requestId) ==
    [type |-> type, videoUrl |-> videoUrl, requestId |-> requestId]
Undefined == "undefined"

\* JSON.parse on the texts above: a thrown SyntaxError, the value null, or an object.
JSONParse(raw) ==
    CASE raw = RawNull -> [kind |-> "null"]
      [] raw = RawPing -> [kind |-> "object", value |-> Message("PING", Undefined, "r1")]
      [] raw = RawReq1 -> [kind |-> "object", value |->
             Message("GET_SUBTITLE", "https://www.bilibili.com/video/BV1xx411c7mD", "r1")]
      [] raw = RawReq2 -> [kind |-> "object", value |->
             Message("GET_SUBTITLE", "https://www.bilibili.com/video/BV1GJ411x7h7?p=2", "r2")]
      [] raw = RawReq3 -> [kind |-> "object", value |->
             Message("GET_SUBTITLE", "https://www.bilibili.com/bangumi/play/ep1", "r1")]
      [] OTHER -> [kind |-> "SyntaxError"]

NoRequest == Message("", "", "")
NoInfo == [none |-> TRUE]

\* \w of the regular expression
WordChars ==
    {"a","b","c","d","e","f","g","h","i","j","k","l","m","n","o","p","q","r","s","t",
     "u","v","w","x","y","z","A","B","C","D","E","F","G","H","I","J","K","L","M","N",
     "O","P","Q","R","S","T","U","V","W","X","Y","Z","0","1","2","3","4","5","6","7",
     "8","9","_"}

CharAt(str, p) == SubSeq(str, p, p)

\* the end of the longest run of \w that starts at p (p - 1 when there is none)
RECURSIVE WordRunEnd(_, _)
WordRunEnd(str, p) ==
    IF p <= Len(str) /\ CharAt(str, p) \in WordChars
    THEN WordRunEnd(str, p + 1)
    ELSE p - 1

BvPrefix == "/video/BV"

\* /\/video\/(BV\w+)/ matches at p
BvMatchAt(url, p) ==
    /\ p + Len(BvPrefix) <= Len(url)
    /\ SubSeq(url, p, p + Len(BvPrefix) - 1) = BvPrefix
    /\ CharAt(url, p + Len(BvPrefix)) \in WordChars

\* (extractBVIDNoThrow: extractBVID without the `if (!match) throw` of lines
\* 175-177, yielding an empty identifier.)
extractBVIDNoThrow(url) ==
    LET at == {p \in 1..Len(url) : BvMatchAt(url, p)} IN
    IF at = {}
    THEN Ok("")
    ELSE LET p == CHOOSE q \in at : \A o \in at : q <= o IN
         Ok(SubSeq(url, p + Len(BvPrefix) - 2, WordRunEnd(url, p + Len(BvPrefix))))

\* extractBVID(url): group 1 of the leftmost match, or the thrown Error.
extractBVID(url) ==
    LET at == {p \in 1..Len(url) : BvMatchAt(url, p)} IN
    IF at = {}
    THEN Thrown(Err("Error", MsgNoBvid))
    ELSE LET p == CHOOSE q \in at : \A o \in at : q <= o IN
         Ok(SubSeq(url, p + Len(BvPrefix) - 2, WordRunEnd(url, p + Len(BvPrefix))))

\* A fetch as the pipeline issues it.
Fetch(url, credentials) == [url |-> url, credentials |-> credentials]

VideoInfoFetch(bvid) ==
    Fetch("https://api.bilibili.com/x/web-interface/view?bvid=" \o bvid, "include")

SubtitleListFetch(aid, cid) ==
    Fetch("https://api.bilibili.com/x/player/wbi/v2?aid=" \o ToString(aid)
              \o "&cid=" \o ToString(cid), "include")

\* What the network answers: the fetch rejects, the body is not JSON, or a JSON body.
Rejected == [kind |-> "reject"]
NotJson == [kind |-> "notjson"]
Json(body) == [kind |-> "json", body |-> body]

FetchError(reply) ==
    IF reply.kind = "reject"
    THEN Err("TypeError", "Failed to fetch")
    ELSE Err("SyntaxError", "Unexpected token < in JSON")

MessageOf(body) == IF "message" \in DOMAIN body THEN body.message ELSE Undefined

\* The network of the model: what each URL can answer.
MetaDenied == Json([code |-> -400, message |-> "request error"])
MetaA == Json([code |-> 0, data |->
            [title |-> "T", owner |-> [name |-> "A"], ctime |-> 1000, aid |-> 11,
             pages |-> <<[cid |-> 55]>>]])
MetaB == Json([code |-> 0, data |->
            [title |-> "U", ctime |-> 2000, aid |-> 22,
             pages |-> <<[cid |-> 66], [cid |-> 67]>>]])
MetaReplies == {Rejected, MetaDenied, MetaA, MetaB}

ListDenied == Json([code |-> -404, message |-> "not found"])
ListNoUrl == Json([code |-> 0, data |-> [subtitle |-> [subtitles |->
                 <<[lan |-> "ai-zh", subtitle_url |-> ""]>>]]])
ListA == Json([code |-> 0, data |-> [subtitle |-> [subtitles |->
                 <<[lan |-> "ai-en", subtitle_url |-> ""],
                   [lan |-> "ai-zh", subtitle_url |-> "http://aisubtitle.hdslb.com/bfs/a.json"],
                   [lan |-> "zh-CN", subtitle_url |-> "https://aisubtitle.hdslb.com/bfs/b.json"]>>]]])
ListB == Json([code |-> 0, data |-> [subtitle |-> [subtitles |->
                 <<[lan |-> "zh-CN", subtitle_url |-> "https://aisubtitle.hdslb.com/bfs/b.json"]>>]]])
ListReplies == {ListDenied, ListNoUrl, ListA, ListB}

DocLines == Json([lang |-> "zh", body |-> <<[from |-> 0, to |-> 2, content |-> "hi"]>>])
DocNoBody == Json([lang |-> "zh"])
DocReplies == {Rejected, NotJson, DocLines, DocNoBody}

VideoInfoReplies(f) ==
    CASE f.url = "https://api.bilibili.com/x/web-interface/view?bvid=BV1xx411c7mD"
             -> {MetaA, Rejected}
      [] f.url = "https://api.bilibili.com/x/web-interface/view?bvid=BV1GJ411x7h7"
             -> {MetaB, MetaDenied}
      [] OTHER -> {MetaDenied}

SubtitleListReplies(f) ==
    CASE f.url = "https://api.bilibili.com/x/player/wbi/v2?aid=11&cid=55"
             -> {ListA, ListDenied}
      [] f.url = "https://api.bilibili.com/x/player/wbi/v2?aid=22&cid=66"
             -> {ListB, ListNoUrl}
      [] OTHER -> {ListDenied}

DocumentReplies(f) ==
    CASE f.url = "https://aisubtitle.hdslb.com/bfs/a.json" -> {DocLines, NotJson}
      [] f.url = "https://aisubtitle.hdslb.com/bfs/b.json" -> {DocNoBody, Rejected}
      [] OTHER -> {Rejected}

\* getVideoInfo(bvid), given the network's answer: result.data, or what is thrown.
getVideoInfo(reply) ==
    IF reply.kind # "json" THEN Thrown(FetchError(reply))
    ELSE IF reply.body.code # 0
    THEN Thrown(Err("Error", MsgVideoInfoFailed \o MessageOf(reply.body)))
    ELSE Ok(reply.body.data)

Truthy(str) == str # ""

\* (getSubtitleListUnfiltered: getSubtitleList without the filter of line 204.)
getSubtitleListUnfiltered(reply) ==
    IF reply.kind # "json" THEN Thrown(FetchError(reply))
    ELSE IF reply.body.code # 0
    THEN Thrown(Err("Error", MsgListFailed \o MessageOf(reply.body)))
    ELSE Ok(reply.body.data.subtitle.subtitles)

\* getSubtitleList(aid, cid), given the network's answer: the filtered list, or what is thrown.
getSubtitleList(reply) ==
    IF reply.kind # "json" THEN Thrown(FetchError(reply))
    ELSE IF reply.body.code # 0
    THEN Thrown(Err("Error", MsgListFailed \o MessageOf(reply.body)))
    ELSE Ok(SelectSeq(reply.body.data.subtitle.subtitles,
                      LAMBDA item : Truthy(item.subtitle_url)))

StartsWith(str, prefix) ==
    Len(str) >= Len(prefix) /\ SubSeq(str, 1, Len(prefix)) = prefix

\* String.prototype.indexOf: where the first occurrence of pat starts (0: nowhere)
IndexOf(str, pat) ==
    LET at == {p \in 1..(Len(str) - Len(pat) + 1) : SubSeq(str, p, p + Len(pat) - 1) = pat} IN
    IF at = {} THEN 0 ELSE CHOOSE p \in at : \A o \in at : p <= o

\* String.prototype.replace with a string pattern: the first occurrence only
ReplaceFirst(str, pat, by) ==
    LET p == IndexOf(str, pat) IN
    IF p = 0 THEN str
    ELSE SubSeq(str, 1, p - 1) \o by \o SubSeq(str, p + Len(pat), Len(str))

\* (UpgradeUrlNoTest: the replace of line 215 without the startsWith test of line 214.)
UpgradeUrlNoTest(url) == ReplaceFirst(url, "http://", "https://")

\* the URL downloadSubtitle fetches (lines 213-216)
UpgradeUrl(url) ==
    IF StartsWith(url, "http://")
    THEN ReplaceFirst(url, "http://", "https://")
    ELSE url

\* (DownloadFetchWithCredentials: the download issued like the two API fetches.)
DownloadFetchWithCredentials(subtitleInfo) ==
    Fetch(UpgradeUrl(subtitleInfo.subtitle_url), "include")

\* downloadSubtitle issues fetch(url) with no init: credentials default to same-origin
DownloadFetch(subtitleInfo) == Fetch(UpgradeUrl(subtitleInfo.subtitle_url), "same-origin")

\* downloadSubtitle(subtitleInfo), given the network's answer
downloadSubtitle(reply) ==
    IF reply.kind # "json" THEN Thrown(FetchError(reply)) ELSE Ok(reply.body)

\* the response object of lines 146-156
SuccessResponse(req, info, subtitleData) ==
    [type |-> "SUBTITLE_RESULT",
     requestId |-> req.requestId,
     data |-> [title |-> info.title,
               author |-> IF "owner" \in DOMAIN info /\ Truthy(info.owner.name)
                          THEN info.owner.name ELSE UnknownAuthor,
               url |-> req.videoUrl,
               ctime |-> info.ctime,
               subtitles |-> IF "body" \in DOMAIN subtitleData
                             THEN subtitleData.body ELSE <<>>]]

\* (ErrorResponseWithData: an error response that also carries a data member.)
ErrorResponseWithData(req, e) ==
    [type |-> "SUBTITLE_RESULT", requestId |-> req.requestId,
     data |-> [url |-> req.videoUrl], error |-> ErrorToString(e)]

\* the response object of lines 163-167
ErrorResponse(req, e) ==
    [type |-> "SUBTITLE_RESULT", requestId |-> req.requestId, error |-> ErrorToString(e)]

----------------------------------------------------------------------------
(* Request pipeline *)

\* the condition of sendResponse (line 224)
\* (CanSendAnyState: the condition without its readyState test.)
CanSendAnyState == ws # Null

CanSend == ws # Null /\ ReadyState(sock[ws]) = "OPEN"

\* (sendResponseTwice: the response goes through ws.send twice.)
sendResponseTwice(i, from, response) ==
    LET h == [response |-> response,
              sent |-> CanSend,
              session |-> IF CanSend THEN ws ELSE Null,
              from |-> IF CanSend THEN from ELSE Null] IN
    handed' = [handed EXCEPT ![i] = Append(Append(@, h), h)]

\* sendResponse(response), for request i that came over instance `from`
sendResponse(i, from, response) ==
    handed' = [handed EXCEPT ![i] =
                  Append(@, [response |-> response,
                             sent |-> CanSend,
                             session |-> IF CanSend THEN ws ELSE Null,
                             from |-> IF CanSend THEN from ELSE Null])]

\* handleSubtitleRequest of request i returns after sending `response`.
Finish(i, from, response) ==
    /\ pc' = [pc EXCEPT ![i] = "done"]
    /\ videoInfo' = [videoInfo EXCEPT ![i] = NoInfo]
    /\ sendResponse(i, from, response)

\* (SharedVideoInfo: videoInfo kept in one place that the latest request
\* overwrites, instead of in a local of each invocation.)
SharedVideoInfo(i) ==
    LET has == {j \in Requests : "title" \in DOMAIN videoInfo[j]} IN
    videoInfo[CHOOSE j \in has : \A o \in has : o <= j]

\* the local `videoInfo` of request i's invocation
LocalVideoInfo(i) == videoInfo[i]

\* request i issues fetch f and suspends at `await`
Await(i, stage, f) ==
    /\ pc' = [pc EXCEPT ![i] = stage]
    /\ fetchLog' = [fetchLog EXCEPT ![i] = Append(@, f)]

\* the fetch request i is waiting for
Pending(i) == fetchLog[i][Len(fetchLog[i])]

IdleRequests == {i \in Requests : pc[i] = "idle"}
NextRequest == CHOOSE i \in IdleRequests : \A o \in IdleRequests : i <= o

\* (handleSubtitleRequestUncaught: extractBVID called outside the try block, so
\* that its Error rejects the promise and no response is built.)
handleSubtitleRequestUncaught(s, msg) ==
    LET i == NextRequest
        bvid == extractBVID(msg.videoUrl) IN
    /\ IdleRequests # {}
    /\ request' = [request EXCEPT ![i] = msg]
    /\ IF bvid.ok
       THEN /\ Await(i, "getVideoInfo", VideoInfoFetch(bvid.value))
            /\ origin' = [origin EXCEPT ![i] = s]
            /\ UNCHANGED <<videoInfo, handed>>
       ELSE /\ pc' = [pc EXCEPT ![i] = "done"]
            /\ UNCHANGED <<videoInfo, handed, fetchLog, origin>>
    /\ UNCHANGED replies

\* handleSubtitleRequest(request) up to its first await (lines 119-128), for
\* a message that came over instance s
handleSubtitleRequest(s, msg) ==
    LET i == NextRequest
        bvid == extractBVID(msg.videoUrl) IN
    /\ IdleRequests # {}
    /\ request' = [request EXCEPT ![i] = msg]
    /\ IF bvid.ok
       THEN /\ Await(i, "getVideoInfo", VideoInfoFetch(bvid.value))
            /\ origin' = [origin EXCEPT ![i] = s]
            /\ UNCHANGED <<videoInfo, handed>>
       ELSE /\ Finish(i, s, ErrorResponse(msg, bvid.error))
            /\ UNCHANGED <<fetchLog, origin>>
    /\ UNCHANGED replies

\* (IsAnyObject: the dispatch without the type test of line 109.)
IsAnyObject(parsed) == parsed.kind = "object"

\* the test of line 109
IsSubtitleRequest(parsed) == parsed.kind = "object" /\ parsed.value.type = "GET_SUBTITLE"

\* handleMessage(data), called by the onmessage of instance s
handleMessage(s, data) ==
    IF IsSubtitleRequest(JSONParse(data))
    THEN handleSubtitleRequest(s, JSONParse(data).value)
    ELSE UNCHANGED <<pc, request, videoInfo, origin, replies, fetchLog, handed>>

\* (OnMessageSerial: a handler that takes up a message only when no earlier
\* request is still waiting for a fetch.)
OnMessageSerial(s, data) ==
    /\ ~InTask
    /\ sock[s] = "open"
    /\ \A i \in Requests : pc[i] \in {"idle", "done"}
    /\ handleMessage(s, data)
    /\ ignored' = (ignored \/ data \notin RequestTexts)
    /\ UNCHANGED connVars

\* ws.onmessage of instance s
OnMessage(s, data) ==
    /\ ~InTask
    /\ sock[s] = "open"
    /\ handleMessage(s, data)
    /\ ignored' = (ignored \/ data \notin RequestTexts)
    /\ UNCHANGED connVars

\* lines 128-133: the metadata fetch of request i completes with `reply`
VideoInfoDone(i, reply) ==
    LET got == getVideoInfo(reply) IN
    /\ ~InTask
    /\ pc[i] = "getVideoInfo"
    /\ reply \in VideoInfoReplies(Pending(i))
    /\ replies' = [replies EXCEPT ![i] = Append(@, reply)]
    /\ IF ~got.ok
       THEN /\ Finish(i, origin[i], ErrorResponse(request[i], got.error))
            /\ UNCHANGED fetchLog
       ELSE IF got.value.pages = <<>>
       THEN /\ Finish(i, origin[i], ErrorResponse(request[i],
                  Err("TypeError", "Cannot read properties of undefined (reading 'cid')")))
            /\ UNCHANGED fetchLog
       ELSE /\ Await(i, "getSubtitleList",
                     SubtitleListFetch(got.value.aid, got.value.pages[1].cid))
            /\ videoInfo' = [videoInfo EXCEPT ![i] = got.value]
            /\ UNCHANGED handed
    /\ origin' = [origin EXCEPT ![i] = IF pc'[i] = "done" THEN Null ELSE @]
    /\ UNCHANGED <<request, ignored>>
    /\ UNCHANGED connVars

\* lines 133-142: the caption-list fetch of request i completes with `reply`
SubtitleListDone(i, reply) ==
    LET got == getSubtitleList(reply) IN
    /\ ~InTask
    /\ pc[i] = "getSubtitleList"
    /\ reply \in SubtitleListReplies(Pending(i))
    /\ replies' = [replies EXCEPT ![i] = Append(@, reply)]
    /\ IF ~got.ok
       THEN /\ Finish(i, origin[i], ErrorResponse(request[i], got.error))
            /\ UNCHANGED fetchLog
       ELSE IF Len(got.value) = 0
       THEN /\ Finish(i, origin[i], ErrorResponse(request[i], Err("Error", MsgNoSubtitles)))
            /\ UNCHANGED fetchLog
       ELSE /\ Await(i, "downloadSubtitle", DownloadFetch(got.value[1]))
            /\ UNCHANGED <<videoInfo, handed>>
    /\ origin' = [origin EXCEPT ![i] = IF pc'[i] = "done" THEN Null ELSE @]
    /\ UNCHANGED <<request, ignored>>
    /\ UNCHANGED connVars

\* lines 142-170: the caption download of request i completes with `reply`
DownloadDone(i, reply) ==
    LET got == downloadSubtitle(reply) IN
    /\ ~InTask
    /\ pc[i] = "downloadSubtitle"
    /\ reply \in DocumentReplies(Pending(i))
    /\ replies' = [replies EXCEPT ![i] = Append(@, reply)]
    /\ IF ~got.ok
       THEN Finish(i, origin[i], ErrorResponse(request[i], got.error))
       ELSE Finish(i, origin[i], SuccessResponse(request[i], LocalVideoInfo(i), got.value))
    /\ origin' = [origin EXCEPT ![i] = Null]
    /\ UNCHANGED <<request, fetchLog, ignored>>
    /\ UNCHANGED connVars

----------------------------------------------------------------------------
(* The service *)

\* The state after the field initialisers (lines 32-36), before the constructor body.
Fields ==
    /\ sock = [s \in Sessions |-> "none"]
    /\ ws = Null
    /\ isConnecting = FALSE
    /\ reconnectTimer = Null
    /\ timers = {}
    /\ attempts = FALSE
    /\ pc = [i \in Requests |-> "idle"]
    /\ request = [i \in Requests |-> NoRequest]
    /\ videoInfo = [i \in Requests |-> NoInfo]
    /\ origin = [i \in Requests |-> Null]
    /\ replies = [i \in Requests |-> <<>>]
    /\ fetchLog = [i \in Requests |-> <<>>]
    /\ handed = [i \in Requests |-> <<>>]
    /\ ignored = FALSE

\* The state after construction: the constructor has run start(), hence connect().
Init ==
    /\ pc = [i \in Requests |-> "idle"]
    /\ request = [i \in Requests |-> NoRequest]
    /\ videoInfo = [i \in Requests |-> NoInfo]
    /\ origin = [i \in Requests |-> Null]
    /\ replies = [i \in Requests |-> <<>>]
    /\ fetchLog = [i \in Requests |-> <<>>]
    /\ handed = [i \in Requests |-> <<>>]
    /\ ignored = FALSE
    /\ \/ /\ sock = [s \in Sessions |-> IF s = 1 THEN "connecting" ELSE "none"]
          /\ ws = 1
          /\ isConnecting = TRUE
          /\ reconnectTimer = Null
          /\ timers = {}
          /\ attempts = TRUE
       \/ /\ sock = [s \in Sessions |-> "none"]
          /\ ws = Null
          /\ isConnecting = FALSE
          /\ reconnectTimer = 1
          /\ timers = {1}
          /\ attempts = TRUE

Next ==
    \/ \E s \in Sessions : OnOpen(s)
    \/ \E s \in Sessions : PeerClosing(s)
    \/ \E s \in Sessions : OnError(s)
    \/ \E s \in Sessions : OnClose(s)
    \/ \E t \in Timers, throws \in BOOLEAN : TimerFire(t, throws)
    \/ \E s \in Sessions, data \in RawMessages : OnMessage(s, data)
    \/ \E i \in Requests, reply \in MetaReplies : VideoInfoDone(i, reply)
    \/ \E i \in Requests, reply \in ListReplies : SubtitleListDone(i, reply)
    \/ \E i \in Requests, reply \in DocReplies : DownloadDone(i, reply)

Spec == Init /\ [][Next]_vars

\* the fetch request i awaits completes
Completes(i) ==
    \/ \E reply \in MetaReplies : VideoInfoDone(i, reply)
    \/ \E reply \in ListReplies : SubtitleListDone(i, reply)
    \/ \E reply \in DocReplies : DownloadDone(i, reply)

\* the close that the host dispatches right after an error
CloseAfterError == \E s \in Sessions : sock[s] = "errored" /\ OnClose(s)

\* The host's scheduling: a timer that is due fires, the task that dispatched
\* `error` goes on to dispatch `close`, and every fetch that was started
\* settles (its completion is a task the event loop gets to, however often
\* connection events come in between).
LiveSpec ==
    /\ Spec
    /\ WF_vars(\E t \in Timers, throws \in BOOLEAN : TimerFire(t, throws))
    /\ WF_vars(CloseAfterError)
    /\ \A i \in Requests : SF_vars(Completes(i))

----------------------------------------------------------------------------
(* Properties *)

\* the instances that are connecting or open
Active == {s \in Sessions : sock[s] \in {"connecting", "open"}}

\* C1. Reconnect singularity: in every reachable state the host has at most
\* one reconnection timer scheduled; a scheduleReconnect() call made while a
\* timer is pending (the close that follows an error, a failure after a
\* failure) therefore adds none.
C1_ReconnectSingularity == Cardinality(timers) <= 1

\* C1 witness: a later attempt has failed, its `error` has scheduled the
\* timer, and its `close` is about to call scheduleReconnect() again.
C1_Witness ==
    \E s \in Sessions :
        /\ sock[s] = "errored"
        /\ ~attempts
        /\ reconnectTimer # Null
        /\ timers = {reconnectTimer}

\* the responses of request i that ws.send transmitted
Transmitted(i) == SelectSeq(handed[i], LAMBDA h : h.sent)

HasData(r) == "data" \in DOMAIN r
HasError(r) == "error" \in DOMAIN r

\* C2. Correlation: for every accepted GET_SUBTITLE request, at most one
\* response is transmitted, and every response built for it carries the
\* request's requestId.
C2_Correlation ==
    \A i \in Requests :
        /\ Len(Transmitted(i)) <= 1
        /\ \A k \in 1..Len(handed[i]) :
               handed[i][k].response.requestId = request[i].requestId

\* C2 witness: two requests with different identifiers were both answered over
\* the wire, one with data and one with an error.
C2_Witness ==
    /\ MaxRequests >= 2
    /\ request[1].requestId # request[2].requestId
    /\ Len(Transmitted(1)) = 1
    /\ Len(Transmitted(2)) = 1
    /\ HasData(Transmitted(1)[1].response)
    /\ HasError(Transmitted(2)[1].response)

\* C4. Mutual exclusivity: every response the pipeline builds carries a data
\* member or an error member, and never both.
C4_MutualExclusivity ==
    \A i \in Requests : \A k \in 1..Len(handed[i]) :
        HasData(handed[i][k].response) # HasError(handed[i][k].response)

\* C4 witness: a success response and an error response have both been built.
C4_Witness ==
    /\ \E i \in Requests : \E k \in 1..Len(handed[i]) : HasData(handed[i][k].response)
    /\ \E i \in Requests : \E k \in 1..Len(handed[i]) : HasError(handed[i][k].response)

\* C5. Silent drop: the delivery of a text that does not decode, or decodes to
\* something whose type is not GET_SUBTITLE, builds no response, issues no
\* fetch, starts no pipeline and leaves the connection state as it was.
C5_SilentDrop ==
    [][\A s \in Sessions : \A data \in RawMessages \ RequestTexts :
          OnMessage(s, data) =>
              UNCHANGED <<sock, ws, isConnecting, reconnectTimer, timers, attempts,
                          pc, request, videoInfo, origin, replies, fetchLog, handed>>]_vars

\* C5 witness: such a text has been delivered over an open instance and
\* nothing has come of it.
C5_Witness ==
    /\ ignored
    /\ \E s \in Sessions : sock[s] = "open"
    /\ \A i \in Requests : pc[i] = "idle" /\ handed[i] = <<>> /\ fetchLog[i] = <<>>

\* C6. Best-effort send: a response passed to sendResponse is transmitted
\* exactly when the current instance is open at that moment, and what was
\* dropped (or sent) then is never changed afterwards: nothing is queued or
\* retried.
C6_BestEffortSend ==
    [][\A i \in Requests :
          /\ Len(handed'[i]) >= Len(handed[i])
          /\ \A k \in 1..Len(handed[i]) : handed'[i][k] = handed[i][k]
          /\ \A k \in (Len(handed[i]) + 1)..Len(handed'[i]) :
                 handed'[i][k].sent <=> (ws # Null /\ sock[ws] = "open")]_vars

\* C6 witness: a response was dropped, the service has since reconnected and
\* the current instance is open; the response is still untransmitted.
C6_Witness ==
    \E i \in Requests :
        /\ Len(handed[i]) = 1
        /\ ~handed[i][1].sent
        /\ ws # Null
        /\ sock[ws] = "open"

\* a call of connect() made now
ConnectCall(throws) ==
    /\ connect(reconnectTimer, timers, throws)
    /\ UNCHANGED <<pc, request, videoInfo, replies, fetchLog, handed, ignored>>

\* C8. Idempotent connect guard: in every reachable state in which an attempt
\* is in flight or the current instance is open, a call of connect() changes
\* nothing; and at most one instance is connecting or open.
C8_IdempotentConnect ==
    /\ Cardinality(Active) <= 1
    /\ (isConnecting \/ (ws # Null /\ sock[ws] = "open")) =>
           \A throws \in BOOLEAN : ~ENABLED (ConnectCall(throws) /\ vars' # vars)

\* C8 witness: a reconnection attempt is in flight.
C8_Witness ==
    /\ isConnecting
    /\ ws # Null
    /\ sock[ws] = "connecting"
    /\ ~attempts

\* C3. Exactly one response per request: a request in progress has built no
\* response, a finished one exactly one, and (every started fetch settling)
\* every accepted request finishes, whichever stage fails or succeeds.
C3_ExactlyOneResponse ==
    /\ [](\A i \in Requests :
             /\ pc[i] \in {"idle", "getVideoInfo", "getSubtitleList", "downloadSubtitle"}
                    => Len(handed[i]) = 0
             /\ pc[i] = "done" => Len(handed[i]) = 1)
    /\ \A i \in Requests :
           (pc[i] # "idle") ~> (pc[i] = "done" /\ Len(handed[i]) = 1)

\* C3 witness: one request ended at URL extraction and one ran through all
\* three fetches; each has its one response.
C3_Witness ==
    \E i, j \in Requests :
        /\ pc[i] = "done" /\ Len(fetchLog[i]) = 0 /\ Len(handed[i]) = 1
        /\ pc[j] = "done" /\ Len(fetchLog[j]) = 3 /\ Len(handed[j]) = 1

\* no instance exists or is alive, and none is being created
Down == \A s \in Sessions : ~Live(sock[s])

\* the current instance is open
IsOpen == ws # Null /\ sock[ws] = "open"

\* C7. Eventual reconnection: whenever the service is down (after a close, an
\* error or a constructor failure) a further connect attempt is eventually
\* made, every time; and if attempts that are made again and again are
\* eventually accepted (the constructor succeeds, the peer opens), the
\* session eventually becomes open.
C7_EventualReconnection ==
    /\ \A b \in BOOLEAN : (Down /\ attempts = b) ~> (attempts # b)
    /\ (/\ SF_vars(\E t \in Timers : TimerFire(t, FALSE))
        /\ SF_vars(\E s \in Sessions : OnOpen(s)))
           => (Down ~> IsOpen)

\* C7 witness: the service is down after an instance was closed, with further
\* attempts made since the first.
C7_Witness ==
    /\ Down
    /\ ws # Null
    /\ sock[ws] = "closed"
    /\ ~attempts

\* C9. Same channel: every transmitted response went over the instance that
\* delivered its request.
C9_SameChannel ==
    \A i \in Requests : \A k \in 1..Len(handed[i]) :
        handed[i][k].sent => handed[i][k].session = handed[i][k].from

\* what request i's own metadata fetch returned
OwnInfo(i) == replies[i][1].body.data

\* what request i's own run threw, from its own request and its own replies
OwnFailure(i) ==
    CASE Len(replies[i]) = 0 -> extractBVID(request[i].videoUrl).error
      [] Len(replies[i]) = 1 ->
            IF getVideoInfo(replies[i][1]).ok
            THEN Err("TypeError", "Cannot read properties of undefined (reading 'cid')")
            ELSE getVideoInfo(replies[i][1]).error
      [] Len(replies[i]) = 2 ->
            IF getSubtitleList(replies[i][2]).ok
            THEN Err("Error", MsgNoSubtitles)
            ELSE getSubtitleList(replies[i][2]).error
      [] OTHER -> downloadSubtitle(replies[i][3]).error

\* C10. Non-interference: whatever the interleaving of the requests' fetch
\* stages, each response is made of its own request (requestId, url) and of
\* what its own fetches returned (title, author, ctime, subtitles, or the
\* error), and each fetch after the first is made of its own earlier reply.
C10_NonInterference ==
    \A i \in Requests :
        /\ Len(fetchLog[i]) >= 2 =>
               fetchLog[i][2].url =
                   "https://api.bilibili.com/x/player/wbi/v2?aid=" \o ToString(OwnInfo(i).aid)
                       \o "&cid=" \o ToString(OwnInfo(i).pages[1].cid)
        /\ \A k \in 1..Len(handed[i]) :
               LET r == handed[i][k].response IN
               /\ r.requestId = request[i].requestId
               /\ HasData(r) =>
                      /\ Len(replies[i]) = 3
                      /\ r.data.url = request[i].videoUrl
                      /\ r.data.title = OwnInfo(i).title
                      /\ r.data.ctime = OwnInfo(i).ctime
                      /\ r.data.author = (IF "owner" \in DOMAIN OwnInfo(i)
                                          THEN OwnInfo(i).owner.name ELSE UnknownAuthor)
                      /\ r.data.subtitles = (IF "body" \in DOMAIN replies[i][3].body
                                             THEN replies[i][3].body.body ELSE <<>>)
               /\ HasError(r) => r.error = ErrorToString(OwnFailure(i))

\* C10 witness: two requests for different videos were in flight together;
\* the later one has its data response while the earlier one is still
\* waiting for a fetch.
C10_Witness ==
    /\ MaxRequests >= 2
    /\ pc[1] \in {"getSubtitleList", "downloadSubtitle"}
    /\ pc[2] = "done"
    /\ Len(handed[2]) = 1
    /\ HasData(handed[2][1].response)
    /\ request[1].videoUrl # request[2].videoUrl

\* the URL has no "/video/BV" in it
NoBvSegment(url) ==
    \A p \in 1..(Len(url) - Len("/video/BV") + 1) :
        SubSeq(url, p, p + Len("/video/BV") - 1) # "/video/BV"

\* C11. Unparseable URL short-circuit: a request whose URL has no /video/BV
\* segment issues no fetch at all (metadata, caption list, download), is done
\* as soon as it is accepted, and its one response is the error variant with
\* the URL-extraction message and the request's identifier.
C11_UnparseableUrl ==
    \A i \in Requests :
        (pc[i] # "idle" /\ NoBvSegment(request[i].videoUrl)) =>
            /\ pc[i] = "done"
            /\ fetchLog[i] = <<>>
            /\ replies[i] = <<>>
            /\ Len(handed[i]) = 1
            /\ handed[i][1].response =
                   [type |-> "SUBTITLE_RESULT",
                    requestId |-> request[i].requestId,
                    error |-> "Error: " \o MsgNoBvid]

\* C11 witness: such a request was answered over the wire while another
\* request, for a proper URL, has gone on to its fetches.
C11_Witness ==
    \E i, j \in Requests :
        /\ pc[i] = "done"
        /\ NoBvSegment(request[i].videoUrl)
        /\ Len(handed[i]) = 1
        /\ handed[i][1].sent
        /\ Len(fetchLog[j]) >= 1

\* the entries of the caption list that request i's list fetch returned which
\* carry a non-empty download URL
UsableTracks(i) ==
    SelectSeq(replies[i][2].body.data.subtitle.subtitles,
              LAMBDA item : item.subtitle_url # "")

\* request i's caption-list fetch succeeded (a JSON envelope with code 0)
ListSucceeded(i) ==
    /\ Len(replies[i]) >= 2
    /\ replies[i][2].kind = "json"
    /\ replies[i][2].body.code = 0

\* C12. Empty caption list: when the caption-list fetch succeeded and no entry
\* carries a non-empty download URL, no download is issued and the response is
\* {type: SUBTITLE_RESULT, requestId: R, error: E} with E the message text of
\* the failure (line 136).
C12_EmptyCaptionList ==
    \A i \in Requests :
        (ListSucceeded(i) /\ UsableTracks(i) = <<>>) =>
            /\ Len(fetchLog[i]) = 2
            /\ Len(handed[i]) = 1
            /\ handed[i][1].response =
                   [type |-> "SUBTITLE_RESULT",
                    requestId |-> request[i].requestId,
                    error |-> MsgNoSubtitles]

\* C13. Credential separation: every request issues its metadata fetch and its
\* caption-list fetch with credentials "include", and its caption download
\* with the default credentials mode (no init is passed to fetch), under which
\* no cookie goes to the caption host, an origin other than the page's.
C13_CredentialSeparation ==
    \A i \in Requests :
        /\ Len(fetchLog[i]) >= 1 => fetchLog[i][1].credentials = "include"
        /\ Len(fetchLog[i]) >= 2 => fetchLog[i][2].credentials = "include"
        /\ Len(fetchLog[i]) >= 3 =>
               /\ fetchLog[i][3].credentials = "same-origin"
               /\ ~StartsWith(fetchLog[i][3].url, "https://www.bilibili.com/")
               /\ ~StartsWith(fetchLog[i][3].url, "https://api.bilibili.com/")

\* C13 witness: a request has issued all three fetches.
C13_Witness ==
    \E i \in Requests :
        /\ Len(fetchLog[i]) = 3
        /\ pc[i] = "downloadSubtitle"

\* caption URLs: every scheme prefix with every remainder
CaptionUrlSamples ==
    {scheme \o rest :
        scheme \in {"http://", "https://", "//", "ftp://", "HTTP://", "xhttp://", ""},
        rest \in {"aisubtitle.hdslb.com/bfs/a.json", "h/a?from=http://b23.tv/x",
                  "http://", "h", ""}}

\* the URL with a leading "http://" made "https://", and nothing else touched
SchemeUpgraded(url) ==
    IF Len(url) >= 7 /\ SubSeq(url, 1, 7) = "http://"
    THEN "https://" \o SubSeq(url, 8, Len(url))
    ELSE url

\* downloadSubtitle's URL is the scheme-upgraded one for every sample URL
UpgradesSamples == \A url \in CaptionUrlSamples : UpgradeUrl(url) = SchemeUpgraded(url)

\* C14. URL upgrade: the URL downloadSubtitle fetches is the caption URL with
\* a leading "http://" replaced by "https://", and the caption URL itself
\* otherwise: an "https://" URL is unchanged and an "http://" further inside
\* the URL is never rewritten.  Checked of the sample URLs and of every
\* download a request issues.
C14_UrlUpgrade ==
    /\ UpgradesSamples
    /\ \A i \in Requests :
           Len(fetchLog[i]) = 3 =>
               fetchLog[i][3].url = SchemeUpgraded(UsableTracks(i)[1].subtitle_url)

\* C14 witness: one request downloads from an upgraded "http://" URL, another
\* from an "https://" URL as it was listed.
C14_Witness ==
    \E i, j \in Requests :
        /\ Len(fetchLog[i]) = 3
        /\ UsableTracks(i)[1].subtitle_url = "http://aisubtitle.hdslb.com/bfs/a.json"
        /\ fetchLog[i][3].url = "https://aisubtitle.hdslb.com/bfs/a.json"
        /\ Len(fetchLog[j]) = 3
        /\ UsableTracks(j)[1].subtitle_url = "https://aisubtitle.hdslb.com/bfs/b.json"
        /\ fetchLog[j][3].url = "https://aisubtitle.hdslb.com/bfs/b.json"

\* the stage a fetch belongs to, by the resource it addresses
StageOf(f) ==
    IF StartsWith(f.url, "https://api.bilibili.com/x/web-interface/view?bvid=") THEN 1
    ELSE IF StartsWith(f.url, "https://api.bilibili.com/x/player/wbi/v2?aid=") THEN 2
    ELSE 3

\* request i's metadata fetch succeeded (a JSON envelope with code 0)
InfoSucceeded(i) ==
    /\ Len(replies[i]) >= 1
    /\ replies[i][1].kind = "json"
    /\ replies[i][1].body.code = 0

\* C15. Strict stage ordering with short-circuit: a request's fetches are its
\* metadata fetch, then its caption-list fetch, then its download, each at
\* most once and each started only when every earlier one has completed; the
\* caption-list fetch only after the metadata envelope had code 0, the
\* download only after the caption-list envelope had code 0 and a non-empty
\* filtered list; a finished request has no fetch outstanding and never
\* starts another.
C15_StageOrdering ==
    /\ [](\A i \in Requests :
             /\ Len(fetchLog[i]) <= 3
             /\ Len(replies[i]) <= Len(fetchLog[i])
             /\ Len(fetchLog[i]) <= Len(replies[i]) + 1
             /\ \A k \in 1..Len(fetchLog[i]) : StageOf(fetchLog[i][k]) = k
             /\ Len(fetchLog[i]) >= 2 => InfoSucceeded(i)
             /\ Len(fetchLog[i]) >= 3 => (ListSucceeded(i) /\ UsableTracks(i) # <<>>)
             /\ pc[i] = "done" => Len(replies[i]) = Len(fetchLog[i]))
    /\ [][\A i \in Requests :
             /\ fetchLog'[i] # fetchLog[i] =>
                    /\ pc[i] # "done"
                    /\ Len(fetchLog'[i]) = Len(fetchLog[i]) + 1
                    /\ SubSeq(fetchLog'[i], 1, Len(fetchLog[i])) = fetchLog[i]
                    /\ Len(replies'[i]) = Len(fetchLog[i])
             /\ pc[i] = "done" => pc'[i] = "done"]_vars

\* C15 witness: requests have stopped after a failed metadata fetch and after
\* a failed caption-list fetch, and one is at its download.
C15_Witness ==
    /\ \E i \in Requests :
           pc[i] = "done" /\ Len(fetchLog[i]) = 1 /\ ~InfoSucceeded(i)
    /\ \E i \in Requests :
           \/ pc[i] = "done" /\ Len(fetchLog[i]) = 2 /\ ~ListSucceeded(i)
           \/ pc[i] = "downloadSubtitle" /\ Len(fetchLog[i]) = 3

\* exactly one timer is scheduled, and this.reconnectTimer is its handle
OneTimerPending(rt, tm) == rt # Null /\ tm = {rt}

\* C16. Timer handle cleared before reconnecting: this.reconnectTimer is never
\* a stale handle (it is null exactly when no timer is scheduled); a step in
\* which the timer callback makes its connect attempt ends either with the
\* attempt in flight, the handle null and no timer scheduled, or (the
\* constructor threw) with exactly one fresh timer pending; and when an attempt
\* in flight fails by `error`, exactly one timer is pending afterwards.
C16_TimerHandleCleared ==
    /\ [](IF reconnectTimer = Null THEN timers = {} ELSE timers = {reconnectTimer})
    /\ [][attempts' # attempts =>
             \/ /\ isConnecting'
                /\ ws' # Null
                /\ sock'[ws'] = "connecting"
                /\ reconnectTimer' = Null
                /\ timers' = {}
             \/ /\ ~isConnecting'
                /\ \A s \in Sessions : sock'[s] # "connecting"
                /\ OneTimerPending(reconnectTimer', timers')]_vars
    /\ [][\A s \in Sessions :
             (sock[s] = "connecting" /\ sock'[s] # "connecting" /\ sock'[s] # "open") =>
                 /\ reconnectTimer = Null
                 /\ OneTimerPending(reconnectTimer', timers')]_vars

\* C16 witness: the service never had an instance; the constructor threw at
\* start and again in the timer callback, and a timer is pending once more.
C16_Witness ==
    /\ ws = Null
    /\ ~attempts
    /\ ~isConnecting
    /\ OneTimerPending(reconnectTimer, timers)

\* C17. Open clears the timer: the step in which an instance reports open
\* leaves that instance the current one and open, the connecting flag false
\* and no timer pending; and in every state in which the current instance is
\* open the flag is false, no timer is pending and no timer callback can run.
C17_OpenClearsTimer ==
    /\ [][\A s \in Sessions :
             (sock[s] = "connecting" /\ sock'[s] = "open") =>
                 /\ ws' = s
                 /\ ~isConnecting'
                 /\ reconnectTimer' = Null
                 /\ timers' = {}]_vars
    /\ [](IsOpen =>
             /\ ~isConnecting
             /\ reconnectTimer = Null
             /\ timers = {}
             /\ \A t \in Timers, throws \in BOOLEAN : ~ENABLED TimerFire(t, throws))

\* C17 witness: the service is open again after a reconnection attempt.
C17_Witness ==
    /\ IsOpen
    /\ ~attempts
    /\ ~isConnecting
    /\ reconnectTimer = Null

\* request i is suspended at the await of a fetch
Waiting(i) == pc[i] \in {"getVideoInfo", "getSubtitleList", "downloadSubtitle"}

\* C18. The pipeline does not touch or block the connection manager: a step
\* that changes anything of the pipeline (a request accepted, a fetch issued or
\* completed, a response built and passed to sendResponse, a text dropped)
\* leaves the current instance, the connecting flag, the timer handle and the
\* host's instances and timers as they were; and in every state in which a
\* request is waiting for a fetch that has not completed, every connection
\* event the host has due (open, error, close, timer) can be handled, every
\* other waiting request's fetch can complete, and a further request can be
\* taken up.
C18_PipelineFrame ==
    /\ [][<<pc, request, videoInfo, replies, fetchLog, handed, ignored>>'
              # <<pc, request, videoInfo, replies, fetchLog, handed, ignored>>
          => UNCHANGED <<sock, ws, isConnecting, reconnectTimer, timers, attempts>>]_vars
    /\ []((\E h \in Requests : Waiting(h)) =>
             /\ \A s \in Sessions :
                    /\ (sock[s] = "connecting" /\ ~InTask)
                           => (ENABLED OnOpen(s) /\ ENABLED OnError(s))
                    /\ (sock[s] \in {"open", "closing"} /\ ~InTask)
                           => (ENABLED OnClose(s) /\ ENABLED OnError(s))
                    /\ sock[s] = "errored" => ENABLED OnClose(s)
                    /\ (sock[s] = "open" /\ ~InTask /\ IdleRequests # {})
                           => ENABLED OnMessage(s, RawReq2)
             /\ \A t \in timers :
                    ~InTask => \A throws \in BOOLEAN : ENABLED TimerFire(t, throws)
             /\ \A j \in Requests :
                    (Waiting(j) /\ ~InTask) => ENABLED Completes(j))

\* C18 witness: while the first request has been waiting for its metadata
\* fetch, the service has reconnected and is open, and a later request has got
\* its response over the wire.
C18_Witness ==
    /\ MaxRequests >= 2
    /\ pc[1] = "getVideoInfo"
    /\ pc[2] = "done"
    /\ Len(handed[2]) = 1
    /\ handed[2][1].sent
    /\ ~attempts
    /\ IsOpen

\* C19 as claimed. No dead state: whenever the current instance is not open
\* and no attempt is in flight, a reconnection timer is pending.
C19_NoDeadState ==
    (~IsOpen /\ ~isConnecting) => OneTimerPending(reconnectTimer, timers)

\* the current instance is in its closing handshake (readyState CLOSING)
Closing == ws # Null /\ sock[ws] = "closing"

\* C19 as amended. No dead state: whenever the current instance is neither
\* open nor in its closing handshake and no attempt is in flight, a
\* reconnection timer is pending; and an instance in its closing handshake
\* has its close event, which schedules the timer, still to come.
C19_NoDeadStateUnlessClosing ==
    /\ (~IsOpen /\ ~isConnecting /\ ~Closing) => OneTimerPending(reconnectTimer, timers)
    /\ Closing => ENABLED (OnClose(ws) /\ OneTimerPending(reconnectTimer', timers'))

\* C19 witness: the first instance was open and has closed; the service is
\* down with its timer pending.
C19_Witness ==
    /\ ws # Null
    /\ sock[ws] = "closed"
    /\ attempts
    /\ ~isConnecting
    /\ OneTimerPending(reconnectTimer, timers)

\* C20. Connecting-flag consistency: isConnecting is true exactly when the
\* current instance exists and has reported neither open nor error nor close;
\* no instance other than the current one is alive, so that every open, error
\* and close event is the current instance's, and none comes from an instance
\* a newer attempt has replaced.
C20_ConnectingFlag ==
    /\ [](isConnecting <=> (ws # Null /\ sock[ws] = "connecting"))
    /\ [](\A s \in Sessions : Live(sock[s]) => s = ws)
    /\ [][\A s \in Sessions :
             (sock'[s] # sock[s] /\ sock'[s] # "connecting") => (s = ws /\ ws' = ws)]_vars

\* C20 witness: the first attempt has failed; its instance has reported error
\* (close is to follow) and the flag is down.
C20_Witness ==
    /\ ws # Null
    /\ sock[ws] = "errored"
    /\ attempts
    /\ ~isConnecting

====
